---------------------------- MODULE Spec2Model ----------------------------
(***************************************************************************)
(* A model of the DEFLATE encoder core: the bit writer and the block       *)
(* drivers of src/src/lib.rs and the match finder of src/src/matching.rs.  *)
(*                                                                         *)
(* Three families of behaviours share one set of variables:                *)
(*   SpecBW     any sequence of BitWriter::write_bits calls, then finish   *)
(*   SpecLM     one call of longest_match, one loop iteration per step     *)
(*   SpecDriver compress_data_fixed / compress_data_dynamic over any       *)
(*              sequence of LDPair symbols                                 *)
(*   SpecCompress  compress_data over input bytes, through lz77_compress   *)
(***************************************************************************)
EXTENDS Integers, Sequences, FiniteSets, TLC

VARIABLES
    pc,          \* which operation is running and where it stands
    writer,      \* BitWriter: [bit_position, accumulator, buffer]
    written,     \* history: the bits the write_bits calls were asked to write
    calls,       \* history: number of write_bits calls made so far
    data,        \* longest_match / get_match_length: the bytes searched
    hash_table,  \* ChainedHashTable: [kind, seen]; seen maps each position
                 \* get_prev was asked about to the answer it gave
    position,    \* longest_match: the position matched against
    prev_length, \* longest_match: the caller's previous match length
    max_hash_checks, \* longest_match: the bound on the chain walk
    pos_to_check,    \* get_match_length: the candidate position
    lm,          \* longest_match: its locals
    result,      \* the value returned, or NoResult
    input,       \* compress_data: the input bytes
    btype,       \* compress_data: the block type asked for
    compressed,  \* the symbols lz77_compress returned
    n,           \* the drivers' loop: the index of the next symbol
    fixed,       \* EncoderState.fixed
    output,      \* what compress_data returned, or NoOutput
    ops,         \* history: the writer operations of the pass, in order
    inflater     \* the decoder the returned buffer is handed to

vars == <<pc, writer, written, calls, data, hash_table, position, prev_length,
          max_hash_checks, pos_to_check, lm, result,
          input, btype, compressed, n, fixed, output, ops, inflater>>

\* The variables of the block drivers.
drv_vars == <<input, btype, compressed, n, fixed, output, ops, inflater>>

\* The variables of the match finder, and of the bit writer.
lm_vars == <<data, hash_table, position, prev_length, max_hash_checks,
             pos_to_check, lm, result>>
bw_vars == <<writer, written, calls>>

NoResult == "none"
NoLocals == [status |-> "idle"]
NoTable == [kind |-> "none", seen |-> <<>>]

---------------------------------------------------------------------------
(* Bounds of the model.                                                    *)

\* Number of write_bits calls in a behaviour of SpecBW.
MaxWrites == 2

---------------------------------------------------------------------------
(* Bit arithmetic on naturals.                                             *)

Pow2(e) == 2 ^ e

\* Bit j (0 = least significant) of x.
BitAt(x, j) == (x \div Pow2(j)) % 2

Min(a, b) == IF a < b THEN a ELSE b
Max(a, b) == IF a > b THEN a ELSE b

RECURSIVE BitOr(_, _)
\* a | b
BitOr(a, b) ==
    IF a = 0 THEN b
    ELSE IF b = 0 THEN a
    ELSE Max(a % 2, b % 2) + 2 * BitOr(a \div 2, b \div 2)

RECURSIVE BitXor(_, _)
\* a ^ b
BitXor(a, b) ==
    IF a = 0 THEN b
    ELSE IF b = 0 THEN a
    ELSE ((a + b) % 2) + 2 * BitXor(a \div 2, b \div 2)

\* The low `width` bits of value, bit 0 first.
LowBits(value, width) == [j \in 1..width |-> BitAt(value, j - 1)]

---------------------------------------------------------------------------
(* BitWriter (src/src/lib.rs).                                             *)

\* BitWriter::new
BitWriter_new == [bit_position |-> 0, accumulator |-> 0, buffer |-> <<>>]

\* The flush of write_bits as an `if`: at most one byte leaves.
flush_bytes_once(w) ==
    IF w.bit_position >= 8
    THEN [bit_position |-> w.bit_position - 8,
          accumulator  |-> w.accumulator \div 256,
          buffer       |-> Append(w.buffer, w.accumulator % 256)]
    ELSE w

RECURSIVE flush_bytes(_)
\* The `while self.bit_position >= 8` loop of write_bits.
flush_bytes(w) ==
    IF w.bit_position >= 8
    THEN flush_bytes([bit_position |-> w.bit_position - 8,
                      accumulator  |-> w.accumulator \div 256,
                      buffer       |-> Append(w.buffer, w.accumulator % 256)])
    ELSE w

\* BitWriter::write_bits.  The accumulator is a u32; `bits` is a u16 and the
\* bit position is at most 7 when the shift happens, so the shifted value
\* stays below 2^23 and the u32 never wraps.
write_bits(w, bits, size) ==
    IF size = 0 THEN w
    ELSE flush_bytes([w EXCEPT
            !.accumulator = BitOr(w.accumulator, bits * Pow2(w.bit_position)),
            !.bit_position = w.bit_position + size])

\* Whether BitWriter::finish panics.
finish_panics(w) == w.bit_position > 7

\* finish that leaves the pending bits in the accumulator.
finish_drops_pending(w) == w

\* BitWriter::finish (when it does not panic).
finish(w) ==
    IF w.bit_position # 0
    THEN [w EXCEPT !.buffer = Append(w.buffer, w.accumulator % 256)]
    ELSE w

---------------------------------------------------------------------------
(* SpecBW: write_bits called with any width in 0..16 and values from       *)
(* BitsValues, then finish.                                                *)

\* u16 values handed to write_bits: zero, one, all ones, and mixed patterns.
BitsValues == {0, 1, 2, 165, 256, 23130, 32768, 65535}

\* No buffer was returned: a sequence that is not a byte sequence.
NoOutput == <<-1>>

\* The decoder at the start of a stream.  `state` is "block" at a block
\* header, "lengths" inside a code-length description, "codes" inside the
\* data of a block, "done" after the final block and "error" for a stream
\* that is rejected.
InflateStart ==
    [state |-> "block", pos |-> 0, out |-> <<>>, last |-> FALSE,
     lit |-> <<>>, dist |-> <<>>, cl |-> <<>>, lens |-> <<>>,
     nlen |-> 0, total |-> 0]

\* The drivers at rest, for the behaviours that do not use them.
DriverIdle ==
    /\ input = <<>>
    /\ btype = "none"
    /\ compressed = <<>>
    /\ n = 0
    /\ fixed = FALSE
    /\ output = NoOutput
    /\ ops = <<>>
    /\ inflater = InflateStart

\* The match finder at rest, for the behaviours that do not use it.
LMIdle ==
    /\ data = <<>>
    /\ hash_table = NoTable
    /\ position = 0
    /\ prev_length = 0
    /\ max_hash_checks = 0
    /\ pos_to_check = 0
    /\ lm = NoLocals
    /\ result = NoResult

InitBW ==
    /\ pc = "bw"
    /\ writer = BitWriter_new
    /\ written = <<>>
    /\ calls = 0
    /\ LMIdle
    /\ DriverIdle

BW_write_bits ==
    /\ pc = "bw"
    /\ calls < MaxWrites
    /\ \E bits \in BitsValues, size \in 0..16 :
          /\ writer' = write_bits(writer, bits, size)
          /\ written' = written \o LowBits(bits, size)
    /\ calls' = calls + 1
    /\ pc' = pc
    /\ UNCHANGED lm_vars
    /\ UNCHANGED drv_vars

BW_finish ==
    /\ pc = "bw"
    /\ IF finish_panics(writer)
       THEN /\ pc' = "bw_panic"
            /\ writer' = writer
       ELSE /\ pc' = "bw_finished"
            /\ writer' = finish(writer)
    /\ UNCHANGED <<written, calls, inflater>>
    /\ UNCHANGED lm_vars
    /\ UNCHANGED drv_vars

NextBW == BW_write_bits \/ BW_finish

SpecBW == InitBW /\ [][NextBW]_vars

---------------------------------------------------------------------------
(* Claims about the bit writer (SpecBW).                                   *)

\* Bit k (from 0) of the byte buffer, LSB-first within bytes.
BufferBit(buf, k) == BitAt(buf[(k \div 8) + 1], k % 8)

\* C2: after any sequence of write_bits calls the bits written are the
\* concatenation, in call order, of the low `width` bits of each value: bit j
\* of buffer byte i is the (8i + j)-th bit of that stream, the pending bits of
\* the accumulator are the next bits of the stream, and bits of a value at
\* index >= width neither reach the buffer nor alter a later call's bits.
C2_LowBitsPackedInOrder ==
    pc = "bw" =>
        /\ Len(writer.buffer) = Len(written) \div 8
        /\ writer.bit_position = Len(written) % 8
        /\ \A k \in 0..(8 * Len(writer.buffer) - 1) :
              BufferBit(writer.buffer, k) = written[k + 1]
        /\ \A j \in 0..(writer.bit_position - 1) :
              BitAt(writer.accumulator, j) = written[8 * Len(writer.buffer) + j + 1]

\* C6: finish appends nothing when no bits are pending, and otherwise one
\* byte whose low bits are the pending bits and whose other bits are zero, so
\* the buffer holds ceil(total bits / 8) bytes.
C6_FinishZeroPads ==
    pc = "bw_finished" =>
        /\ Len(writer.buffer) = (Len(written) + 7) \div 8
        /\ \A k \in 0..(8 * Len(writer.buffer) - 1) :
              BufferBit(writer.buffer, k) =
                  IF k < Len(written) THEN written[k + 1] ELSE 0

---------------------------------------------------------------------------
(* The match finder (src/src/matching.rs).  Positions are 0-based as in    *)
(* the source; byte p of `data` is data[p + 1].                            *)

\* huffman_table::MAX_MATCH and MIN_MATCH, and chained_hash_table::WINDOW_SIZE.
MAX_MATCH == 258
MIN_MATCH == 3
WINDOW_SIZE == 32768

\* take_while(a == b).count() over the first n zipped pairs, the first of
\* them being the pair at offset k0: the offset of the first pair that
\* differs, or n when none does.
count_equal(d, a, b, k0, m) ==
    LET differ == {k \in k0..(m - 1) : d[a + k + 1] # d[b + k + 1]} IN
    IF differ = {} THEN m
    ELSE CHOOSE k \in differ : \A j \in differ : k <= j

\* get_match_length with the comparison started one byte late: the first
\* byte is taken to match.
get_match_length_skip_first(d, current_pos, pos_to_chk) ==
    count_equal(d, current_pos, pos_to_chk, 1,
                Max(1, Min(MAX_MATCH, Min(Len(d) - current_pos, Len(d) - pos_to_chk))))

\* get_match_length: zip ends with the shorter slice, take(MAX_MATCH) caps it.
get_match_length(d, current_pos, pos_to_chk) ==
    count_equal(d, current_pos, pos_to_chk, 0,
                Min(MAX_MATCH, Min(Len(d) - current_pos, Len(d) - pos_to_chk)))

\* The early return of longest_match.
lm_returns_early(d, pos, prev_len) ==
    pos = 0 \/ prev_len >= MAX_MATCH \/ pos + prev_len >= Len(d)

\* The locals of longest_match when the loop is entered.
lm_enter(d, pos, prev_len) ==
    [limit         |-> IF pos > WINDOW_SIZE THEN pos - WINDOW_SIZE ELSE 0,
     prev_length   |-> IF prev_len < 1 THEN 1 ELSE prev_len,
     max_length    |-> Min(Len(d) - pos, MAX_MATCH),
     current_head  |-> pos,
     best_length   |-> IF prev_len < 1 THEN 1 ELSE prev_len,
     best_distance |-> 0,
     i             |-> 0,
     status        |-> "loop"]

\* Whether one of the two slices of the sentinel comparison is out of range.
sentinel_out_of_range(d, pos, st, cur) ==
    \/ pos + st.best_length + 1 > Len(d)
    \/ cur + st.best_length + 1 > Len(d)

\* The two-byte comparison at the end of the current best match.
sentinel_matches(d, pos, st, cur) ==
    /\ d[pos + st.best_length] = d[cur + st.best_length]
    /\ d[pos + st.best_length + 1] = d[cur + st.best_length + 1]

\* One iteration of the loop that takes a candidate as soon as its match is
\* not shorter than the best one.
lm_iterate_takes_ties(d, pos, st, got) ==
    LET st1 == [st EXCEPT !.current_head = got, !.i = st.i + 1] IN
    IF got >= st.current_head \/ got < st.limit
    THEN [st1 EXCEPT !.status = "break"]
    ELSE IF sentinel_out_of_range(d, pos, st, got)
    THEN [st1 EXCEPT !.status = "panic"]
    ELSE LET length == get_match_length(d, pos, got) IN
         IF length >= st.best_length /\ length >= MIN_MATCH
         THEN [st1 EXCEPT !.best_length = length,
                          !.best_distance = pos - got,
                          !.status = IF length = st.max_length
                                     THEN "break" ELSE "loop"]
         ELSE st1

\* One iteration of the loop that treats position 0 as "no entry".
lm_iterate_skips_zero(d, pos, st, got) ==
    LET st1 == [st EXCEPT !.current_head = got, !.i = st.i + 1] IN
    IF got >= st.current_head \/ got < st.limit \/ got = 0
    THEN [st1 EXCEPT !.status = "break"]
    ELSE IF sentinel_out_of_range(d, pos, st, got)
    THEN [st1 EXCEPT !.status = "panic"]
    ELSE IF sentinel_matches(d, pos, st, got)
    THEN LET length == get_match_length(d, pos, got) IN
         IF length > st.best_length /\ length >= MIN_MATCH
         THEN [st1 EXCEPT !.best_length = length,
                          !.best_distance = pos - got,
                          !.status = IF length = st.max_length
                                     THEN "break" ELSE "loop"]
         ELSE st1
    ELSE st1

\* One iteration of the loop of longest_match; `got` is what
\* hash_table.get_prev(current_head) returned.
lm_iterate(d, pos, st, got) ==
    LET st1 == [st EXCEPT !.current_head = got, !.i = st.i + 1] IN
    IF got >= st.current_head \/ got < st.limit
    THEN [st1 EXCEPT !.status = "break"]
    ELSE IF sentinel_out_of_range(d, pos, st, got)
    THEN [st1 EXCEPT !.status = "panic"]
    ELSE IF sentinel_matches(d, pos, st, got)
    THEN LET length == get_match_length(d, pos, got) IN
         IF length > st.best_length /\ length >= MIN_MATCH
         THEN [st1 EXCEPT !.best_length = length,
                          !.best_distance = pos - got,
                          !.status = IF length = st.max_length
                                     THEN "break" ELSE "loop"]
         ELSE st1
    ELSE st1

\* The value longest_match returns after the loop, with the length returned
\* as it stands (the earlier revision's behaviour).
lm_return_raw(st) == <<st.best_length, st.best_distance>>

\* The value longest_match returns after the loop.
lm_return(st) ==
    <<IF st.best_length > st.prev_length THEN st.best_length ELSE 0,
      st.best_distance>>

---------------------------------------------------------------------------
(* ChainedHashTable::get_prev.  The table's code is not part of the        *)
(* sources at hand; its chains are modelled from the design document.      *)

HASH_SHIFT == 5
HASH_MASK == 32767

\* The rolling hash after the three bytes at positions q, q+1, q+2:
\* h := ((h << HASH_SHIFT) ^ byte) & HASH_MASK, three times.
hash_at(d, q) ==
    BitXor(BitXor((d[q + 1] * Pow2(2 * HASH_SHIFT)) % (HASH_MASK + 1),
                  d[q + 2] * Pow2(HASH_SHIFT)),
           d[q + 3]) % (HASH_MASK + 1)

RECURSIVE nearest_same_hash(_, _, _)
\* The greatest position below c whose three bytes hash like those at q; 0
\* (the initial value of a head slot) when there is none.
nearest_same_hash(d, q, c) ==
    IF c = 0 THEN 0
    ELSE IF hash_at(d, c - 1) = hash_at(d, q) THEN c - 1
    ELSE nearest_same_hash(d, q, c - 1)

\* get_prev(q) of the table filled by add_hash_value for every position of d
\* that has three bytes: the head of q's hash when q was added.
filled_get_prev(d, q) ==
    IF q + 3 <= Len(d) THEN nearest_same_hash(d, q, q) ELSE 0

---------------------------------------------------------------------------
(* SpecLM: one call of longest_match.  A table of kind "any" answers each  *)
(* get_prev with any value (every content of the chain arrays); a table of *)
(* kind "filled" answers as the table filled from `data` does.  The walk   *)
(* never asks about the same position twice, so the answers drawn one by   *)
(* one are the entries of one table, recorded in hash_table.seen.          *)

\* Longest data enumerated exhaustively, and the largest max_hash_checks.
MaxDataLen == 6
MaxHashChecks == 3

\* The bytes of the exhaustively enumerated data.
LMBytes == {1, 2}

SeqsUpTo(S, maxlen) == UNION {[1..k -> S] : k \in 0..maxlen}

\* matching.rs test::get_longest_match and test::match_index_zero.
TestData == <<120, 84, 101, 115, 116, 32, 100, 97, 116, 97, 44, 32, 84, 101, 115, 116, 95, 100, 97, 116, 97, 44, 122, 84, 101, 115, 116, 32, 100, 97, 116, 97>>
TestArr2 == <<10, 10, 10, 10, 10, 10, 10, 10, 2, 3, 5, 10, 10, 10, 10, 10>>
TestAs == <<65, 65, 65, 65, 65, 65, 65>>
\* A run longer than MAX_MATCH, and data longer than the window whose bytes
\* repeat with period 4.
LongRun == [k \in 1..(MAX_MATCH + 4) |-> 1]
BigData == [k \in 1..(WINDOW_SIZE + 8) |-> IF k % 4 = 0 THEN 2 ELSE 1]

\* What a table of kind "any" may answer.
AnyAnswers(d, pos) ==
    IF Len(d) <= MaxDataLen + 1 THEN 0..Len(d)
    ELSE {v \in {0, 1, 2, 3, 6, pos - 4, pos - 1, pos, 65535} : v >= 0}

GetPrevAnswers(table, d, pos, q) ==
    IF table.kind = "filled" THEN {filled_get_prev(d, q)}
    ELSE AnyAnswers(d, pos)

LMCall(d, k, pos, pl, mhc) ==
    [data |-> d, kind |-> k, position |-> pos, prev_length |-> pl,
     max_hash_checks |-> mhc]

LMCalls ==
    {LMCall(d, "any", pos, pl, mhc) :
        d \in SeqsUpTo(LMBytes, MaxDataLen) \ {<<>>},
        pos \in 0..MaxDataLen, pl \in {0, 1, 2, 3}, mhc \in 0..MaxHashChecks}
    \cup {LMCall(TestData, "filled", 23, 2, 4096),
          LMCall(TestData, "filled", 23, 2, 1),
          LMCall(TestArr2, "filled", 4, 2, 4096),
          LMCall(TestAs, "filled", 2, 0, 4096),
          LMCall(TestAs, "filled", 6, 0, 4096)}
    \cup {LMCall(LongRun, "any", pos, pl, 2) :
             pos \in {1, 3, 4}, pl \in {0, 2, MAX_MATCH - 1, MAX_MATCH}}
    \cup {LMCall(BigData, "any", pos, 2, MaxHashChecks) :
             pos \in {WINDOW_SIZE, WINDOW_SIZE + 1, WINDOW_SIZE + 2}}

\* The bit writer at rest.
BWIdle ==
    /\ writer = BitWriter_new
    /\ written = <<>>
    /\ calls = 0

InitLM ==
    /\ pc = "lm_call"
    /\ \E c \in LMCalls :
          /\ c.position <= Len(c.data)
          /\ data = c.data
          /\ hash_table = [kind |-> c.kind, seen |-> <<>>]
          /\ position = c.position
          /\ prev_length = c.prev_length
          /\ max_hash_checks = c.max_hash_checks
    /\ pos_to_check = 0
    /\ lm = NoLocals
    /\ result = NoResult
    /\ BWIdle
    /\ DriverIdle

\* longest_match up to the loop: the early return, or the locals set up.
LM_enter ==
    /\ pc = "lm_call"
    /\ IF lm_returns_early(data, position, prev_length)
       THEN /\ result' = <<0, 0>>
            /\ pc' = "lm_done"
            /\ lm' = lm
       ELSE /\ lm' = lm_enter(data, position, prev_length)
            /\ pc' = "lm_loop"
            /\ result' = result
    /\ UNCHANGED <<data, hash_table, position, prev_length, max_hash_checks,
                   pos_to_check>>
    /\ UNCHANGED bw_vars
    /\ UNCHANGED drv_vars

\* One iteration of `for _ in 0..max_hash_checks`.
LM_iterate ==
    /\ pc = "lm_loop"
    /\ lm.status = "loop"
    /\ lm.i < max_hash_checks
    /\ \E got \in GetPrevAnswers(hash_table, data, position, lm.current_head) :
          /\ lm' = lm_iterate(data, position, lm, got)
          /\ hash_table' = [hash_table EXCEPT
                               !.seen = Append(@, <<lm.current_head, got>>)]
    /\ pc' = IF lm'.status = "panic" THEN "lm_panic" ELSE pc
    /\ UNCHANGED <<data, position, prev_length, max_hash_checks, pos_to_check,
                   result>>
    /\ UNCHANGED bw_vars
    /\ UNCHANGED drv_vars

\* The loop is left (a break, or max_hash_checks iterations) and the pair
\* is returned.
LM_return ==
    /\ pc = "lm_loop"
    /\ lm.status = "break" \/ lm.i >= max_hash_checks
    /\ result' = lm_return(lm)
    /\ pc' = "lm_done"
    /\ UNCHANGED <<data, hash_table, position, prev_length, max_hash_checks,
                   pos_to_check, lm>>
    /\ UNCHANGED bw_vars
    /\ UNCHANGED drv_vars

NextLM == LM_enter \/ LM_iterate \/ LM_return

SpecLM == InitLM /\ [][NextLM]_vars

---------------------------------------------------------------------------
(* SpecML: one call of get_match_length(data, position, pos_to_check) with *)
(* pos_to_check < position < data.len().                                   *)

\* LongRun with one byte changed, so that a match ends at a chosen offset.
LongRunBrokenAt(m) == [k \in 1..(MAX_MATCH + 4) |-> IF k = m THEN 2 ELSE 1]

MLData ==
    SeqsUpTo(LMBytes, MaxDataLen)
    \cup {LongRun, TestArr2, TestData}
    \cup {LongRunBrokenAt(m) : m \in {MAX_MATCH, MAX_MATCH + 2, MAX_MATCH + 3, MAX_MATCH + 4}}

InitML ==
    /\ pc = "ml_call"
    /\ data \in MLData
    /\ position \in 0..(Len(data) - 1)
    /\ pos_to_check \in 0..(position - 1)
    /\ Len(data) > MaxDataLen + 1 => position <= 10 /\ pos_to_check <= 7
    /\ hash_table = NoTable
    /\ prev_length = 0
    /\ max_hash_checks = 0
    /\ lm = NoLocals
    /\ result = NoResult
    /\ BWIdle
    /\ DriverIdle

ML_get_match_length ==
    /\ pc = "ml_call"
    /\ result' = get_match_length(data, position, pos_to_check)
    /\ pc' = "ml_done"
    /\ UNCHANGED <<data, hash_table, position, prev_length, max_hash_checks,
                   pos_to_check, lm>>
    /\ UNCHANGED bw_vars
    /\ UNCHANGED drv_vars

NextML == ML_get_match_length

SpecML == InitML /\ [][NextML]_vars

---------------------------------------------------------------------------
(* Claims about the match finder.                                          *)

\* Whether the L bytes at positions a.. and b.. of d are equal.
SlicesEqual(d, a, b, L) == \A k \in 1..L : d[a + k] = d[b + k]

\* The greatest L in 0..min(258, len - pos) with d[pos..pos+L] = d[c..c+L];
\* the lengths that qualify are downward closed, so their number is the
\* greatest of them.
MatchLen(d, pos, c) ==
    Cardinality({L \in 1..Min(MAX_MATCH, Len(d) - pos) : SlicesEqual(d, pos, c, L)})

\* C5: for candidate < position < data.len(), get_match_length is the largest
\* L in [0, 258] with L <= data.len() - position and equal slices of length L;
\* it is 0 when the first bytes differ and never exceeds 258 or the bytes left.
C5_MatchLengthIsGreatest ==
    pc = "ml_done" =>
        /\ result = MatchLen(data, position, pos_to_check)
        /\ result <= MAX_MATCH
        /\ position + result <= Len(data)
        /\ data[position + 1] # data[pos_to_check + 1] => result = 0

\* C5's case: more than 258 equal bytes follow, and the length is capped.
C5_Witness ==
    /\ pc = "ml_done"
    /\ Len(data) - position > MAX_MATCH
    /\ result = MAX_MATCH
    /\ data[position + MAX_MATCH + 1] = data[pos_to_check + MAX_MATCH + 1]

\* The window limit of a call.
Limit(pos) == IF pos > WINDOW_SIZE THEN pos - WINDOW_SIZE ELSE 0

\* The candidates the walk met, in the order met: the answers of get_prev
\* that were below the position asked about and inside the window.
RECURSIVE CandidatesOf(_, _)
CandidatesOf(seen, lim) ==
    IF seen = <<>> THEN <<>>
    ELSE IF seen[1][2] < seen[1][1] /\ seen[1][2] >= lim
         THEN <<seen[1][2]>> \o CandidatesOf(Tail(seen), lim)
         ELSE CandidatesOf(Tail(seen), lim)

Candidates == CandidatesOf(hash_table.seen, Limit(position))

\* The greatest match length among the candidates (0 when there are none).
BestLen(cands) ==
    IF cands = <<>> THEN 0
    ELSE LET ls == {MatchLen(data, position, cands[i]) : i \in 1..Len(cands)}
         IN CHOOSE l \in ls : \A m \in ls : m <= l

\* The first candidate met (the nearest) whose match has length l.
FirstReaching(cands, l) ==
    cands[CHOOSE i \in 1..Len(cands) :
             /\ MatchLen(data, position, cands[i]) = l
             /\ \A j \in 1..(i - 1) : MatchLen(data, position, cands[j]) # l]

EarlyReturn == lm_returns_early(data, position, prev_length)

\* The walk met every candidate the claim allows: it ran max_hash_checks
\* iterations, or reached the end of the chain, or met a match of the
\* greatest possible length.
WalkComplete(cands) ==
    \/ Len(hash_table.seen) = max_hash_checks
    \/ Len(cands) < Len(hash_table.seen)
    \/ BestLen(cands) = Min(MAX_MATCH, Len(data) - position)

\* C3: among the candidates of the chain walk, when the greatest match length
\* L is >= 3 and > prev_length, longest_match returns L and the distance of the
\* nearest candidate that reaches L; a call that returns before the walk has
\* no position at all with such a match.
C3_LongestNearestWins ==
    pc = "lm_done" =>
        IF EarlyReturn
        THEN \A c \in 0..(position - 1) :
                ~(MatchLen(data, position, c) >= MIN_MATCH
                  /\ MatchLen(data, position, c) > prev_length)
        ELSE LET cands == Candidates
                 L == BestLen(cands)
             IN /\ WalkComplete(cands)
                /\ L <= Min(MAX_MATCH, Len(data) - position)
                /\ (L >= MIN_MATCH /\ L > prev_length) =>
                      result = <<L, position - FirstReaching(cands, L)>>

\* C3's case: the nearest candidate gave a match of 3 or more, a farther one
\* a longer match, and the farther one was returned.
C3_Witness ==
    /\ pc = "lm_done"
    /\ Len(Candidates) >= 2
    /\ MatchLen(data, position, Candidates[1]) >= MIN_MATCH
    /\ MatchLen(data, position, Candidates[1]) < MatchLen(data, position, Candidates[2])
    /\ result = <<MatchLen(data, position, Candidates[2]), position - Candidates[2]>>

\* C7: when the walk reaches candidate 0 inside the window and the match at 0
\* has length >= 3, > prev_length and greater than every nearer candidate's,
\* longest_match returns it with distance = position, and the walk ends at 0
\* (whatever get_prev(0) answers).  With "AAAAAAA" and positions 0..2 inserted,
\* the call at position 2 with prev_length 0 returns distance 1, length >= 3.
C7_PositionZeroIsCandidate ==
    pc = "lm_done" /\ ~EarlyReturn =>
        LET cands == Candidates
            nc == Len(cands)
            l0 == MatchLen(data, position, 0)
        IN /\ (/\ nc >= 1
               /\ cands[nc] = 0
               /\ l0 >= MIN_MATCH
               /\ l0 > prev_length
               /\ \A j \in 1..(nc - 1) : MatchLen(data, position, cands[j]) < l0)
              => result = <<l0, position>>
           /\ \A i \in 1..Len(hash_table.seen) :
                 hash_table.seen[i][1] = 0 =>
                     i = Len(hash_table.seen) /\ lm.status = "break"
           /\ (data = TestAs /\ position = 2 /\ prev_length = 0
               /\ hash_table.kind = "filled")
              => result[2] = 1 /\ result[1] >= MIN_MATCH

\* C7's case: candidate 0 was met, its match was returned, and the walk went
\* on to ask for the predecessor of 0.
C7_Witness ==
    /\ pc = "lm_done"
    /\ position >= 2
    /\ result[1] >= MIN_MATCH
    /\ result[2] = position
    /\ \E i \in 1..Len(hash_table.seen) : hash_table.seen[i][1] = 0

---------------------------------------------------------------------------
(* huffman_table: the Huffman table of the encoder.  Its code is not part  *)
(* of the sources at hand; it is modelled from the design document and RFC *)
(* 1951 (canonical codes from code lengths, stored bit-reversed so that    *)
(* the LSB-first bit writer emits them most significant bit first).        *)

\* RFC 1951 3.2.6: the code lengths of the fixed literal/length code
\* (symbols 0..287) and of the fixed distance code.
FIXED_CODE_LENGTHS ==
    [s \in 0..287 |-> IF s <= 143 THEN 8
                      ELSE IF s <= 255 THEN 9
                      ELSE IF s <= 279 THEN 7
                      ELSE 8]
FIXED_CODE_LENGTHS_DISTANCE == [s \in 0..29 |-> 5]

\* RFC 1951 3.2.5: base value and number of extra bits of the length codes
\* 257..285 and of the distance codes 0..29.
LENGTH_BASE ==
    <<3, 4, 5, 6, 7, 8, 9, 10, 11, 13, 15, 17, 19, 23, 27, 31, 35, 43, 51, 59,
      67, 83, 99, 115, 131, 163, 195, 227, 258>>
LENGTH_EXTRA ==
    <<0, 0, 0, 0, 0, 0, 0, 0, 1, 1, 1, 1, 2, 2, 2, 2, 3, 3, 3, 3,
      4, 4, 4, 4, 5, 5, 5, 5, 0>>
DISTANCE_BASE ==
    <<1, 2, 3, 4, 5, 7, 9, 13, 17, 25, 33, 49, 65, 97, 129, 193, 257, 385,
      513, 769, 1025, 1537, 2049, 3073, 4097, 6145, 8193, 12289, 16385, 24577>>
DISTANCE_EXTRA ==
    <<0, 0, 0, 0, 1, 1, 2, 2, 3, 3, 4, 4, 5, 5, 6, 6, 7, 7, 8, 8,
      9, 9, 10, 10, 11, 11, 12, 12, 13, 13>>

MAX_DISTANCE == 32768

\* The number of symbols of `lengths` with code length l.
bl_count(lengths, l) ==
    IF l = 0 THEN 0 ELSE Cardinality({s \in DOMAIN lengths : lengths[s] = l})

RECURSIVE next_code(_, _)
\* RFC 1951 3.2.2 step 2: the smallest code of each code length.
next_code(lengths, bits) ==
    IF bits = 0 THEN 0
    ELSE 2 * (next_code(lengths, bits - 1) + bl_count(lengths, bits - 1))

RECURSIVE reverse_bits(_, _)
\* The low `width` bits of code in reverse order.
reverse_bits(code, width) ==
    IF width = 0 THEN 0
    ELSE (code % 2) * Pow2(width - 1) + reverse_bits(code \div 2, width - 1)

\* RFC 1951 3.2.2 step 3: consecutive codes, in symbol order, to the symbols
\* of each length; the table keeps each code bit-reversed.
canonical_codes(lengths) ==
    [s \in DOMAIN lengths |->
        IF lengths[s] = 0 THEN [code |-> 0, length |-> 0]
        ELSE [code   |-> reverse_bits(
                            next_code(lengths, lengths[s])
                            + Cardinality({t \in DOMAIN lengths :
                                              t < s /\ lengths[t] = lengths[s]}),
                            lengths[s]),
              length |-> lengths[s]]]

\* HuffmanTable::from_length_tables
from_length_tables(lit_lengths, dist_lengths) ==
    [codes |-> canonical_codes(lit_lengths),
     distance_codes |-> canonical_codes(dist_lengths)]

\* The table both block drivers build.
FixedTable == from_length_tables(FIXED_CODE_LENGTHS, FIXED_CODE_LENGTHS_DISTANCE)

\* The index of the last entry of `base` that is <= v.
base_index(base, v) ==
    CHOOSE i \in 1..Len(base) :
        base[i] <= v /\ (i = Len(base) \/ base[i + 1] > v)

get_literal(table, value) == table.codes[value]

get_end_of_block(table) == table.codes[256]

\* Whether get_length_distance_code has a code for the pair.
has_length_distance_code(length, distance) ==
    /\ length >= MIN_MATCH /\ length <= MAX_MATCH
    /\ distance >= 1 /\ distance <= MAX_DISTANCE

\* get_length_distance_code(length, distance), for a pair that has a code:
\* the four codes written for a match.  Extra bits are kept as they are.
get_length_distance_code(table, length, distance) ==
    LET li == base_index(LENGTH_BASE, length)
        di == base_index(DISTANCE_BASE, distance)
    IN [length_code         |-> table.codes[256 + li],
        length_extra_bits   |-> [code   |-> length - LENGTH_BASE[li],
                                 length |-> LENGTH_EXTRA[li]],
        distance_code       |-> table.distance_codes[di - 1],
        distance_extra_bits |-> [code   |-> distance - DISTANCE_BASE[di],
                                 length |-> DISTANCE_EXTRA[di]]]

---------------------------------------------------------------------------
(* lz77: the LZ77 stage.  Its code is not part of the sources at hand; it  *)
(* is modelled from the design document (lazy matching over the match      *)
(* finder above, one BlockStart marker first).                             *)

Literal(b) == [type |-> "Literal", value |-> b]
LengthDistance(l, dist) == [type |-> "LengthDistance", length |-> l, distance |-> dist]
BlockStart(f) == [type |-> "BlockStart", is_final |-> f]

\* compression_options::MAX_HASH_CHECKS
MAX_HASH_CHECKS == 4096

RECURSIVE lm_loop(_, _, _, _)
\* The loop of longest_match over the table filled from d.
lm_loop(d, pos, st, mhc) ==
    IF st.status = "loop" /\ st.i < mhc
    THEN lm_loop(d, pos, lm_iterate(d, pos, st, filled_get_prev(d, st.current_head)), mhc)
    ELSE st

\* longest_match(d, table filled from d, pos, prev_len, mhc)
longest_match(d, pos, prev_len, mhc) ==
    IF lm_returns_early(d, pos, prev_len) THEN <<0, 0>>
    ELSE lm_return(lm_loop(d, pos, lm_enter(d, pos, prev_len), mhc))

RECURSIVE lz77_from(_, _, _, _, _)
\* The lazy-matching loop at position p.  prev is the match found at p - 1
\* (length 0: none); pending tells that the byte at p - 1 is not emitted yet.
lz77_from(d, p, prev, pending, out) ==
    IF p >= Len(d)
    THEN IF prev[1] >= MIN_MATCH THEN Append(out, LengthDistance(prev[1], prev[2]))
         ELSE IF pending THEN Append(out, Literal(d[p]))
         ELSE out
    ELSE LET m == longest_match(d, p, IF prev[1] >= MIN_MATCH THEN prev[1] ELSE MIN_MATCH - 1,
                                MAX_HASH_CHECKS)
         IN IF prev[1] >= MIN_MATCH
            THEN IF m[1] > prev[1]
                 THEN lz77_from(d, p + 1, m, TRUE, Append(out, Literal(d[p])))
                 ELSE lz77_from(d, p - 1 + prev[1], <<0, 0>>, FALSE,
                                Append(out, LengthDistance(prev[1], prev[2])))
            ELSE lz77_from(d, p + 1, m, TRUE,
                           IF pending THEN Append(out, Literal(d[p])) ELSE out)

\* lz77_compress(input, WINDOW_SIZE)
lz77_compress(d) ==
    lz77_from(d, 0, <<0, 0>>, FALSE, <<BlockStart(TRUE)>>)

---------------------------------------------------------------------------
(* huffman_lengths::write_huffman_lengths: the code-length description of  *)
(* a dynamic block.  Its code is not part of the sources at hand; it is    *)
(* modelled from the design document and RFC 1951 3.2.7.                   *)

\* The order in which the code lengths of the code-length alphabet are sent.
CODE_LENGTH_ORDER ==
    <<16, 17, 18, 0, 8, 7, 9, 6, 10, 5, 11, 4, 12, 3, 13, 2, 14, 1, 15>>

\* The code lengths of the code-length alphabet: a complete prefix code over
\* the symbols the fixed tables need (5, 7, 8, 9 and the repeat symbol 16).
CODE_LENGTH_CODE_LENGTHS ==
    [s \in 0..18 |-> IF s \in {7, 8, 16} THEN 2
                     ELSE IF s \in {5, 9} THEN 3
                     ELSE 0]

\* A function over 0..n-1 as a sequence.
AsSeq(f) == [i \in 1..Cardinality(DOMAIN f) |-> f[i - 1]]

RECURSIVE rle_rest(_, _)
\* `count` further copies of length v: symbol 16 (copy the previous length 3
\* to 6 times, 2 extra bits) while 3 or more are left, v itself otherwise.
rle_rest(v, count) ==
    IF count = 0 THEN <<>>
    ELSE IF count < 3
    THEN <<[sym |-> v, extra |-> 0, nbits |-> 0]>> \o rle_rest(v, count - 1)
    ELSE <<[sym |-> 16, extra |-> Min(count, 6) - 3, nbits |-> 2]>>
         \o rle_rest(v, count - Min(count, 6))

RECURSIVE rle_from(_, _)
\* The run-length encoding of ls[i..]: one run of equal lengths at a time.
rle_from(ls, i) ==
    IF i > Len(ls) THEN <<>>
    ELSE LET later == {k \in (i + 1)..Len(ls) : ls[k] # ls[i]}
             j == IF later = {} THEN Len(ls) + 1
                  ELSE CHOOSE k \in later : \A m \in later : k <= m
         IN <<[sym |-> ls[i], extra |-> 0, nbits |-> 0]>>
            \o rle_rest(ls[i], j - i - 1)
            \o rle_from(ls, j)

\* The write_bits calls of write_huffman_lengths, as <<value, width>> pairs:
\* HLIT, HDIST, HCLEN, the code lengths of the code-length alphabet, then the
\* run-length-encoded code lengths, literal/length first.
huffman_lengths_writes(lit_lengths, dist_lengths) ==
    LET clc == canonical_codes(CODE_LENGTH_CODE_LENGTHS)
        syms == rle_from(AsSeq(lit_lengths) \o AsSeq(dist_lengths), 1)
        flat == [k \in 1..(2 * Len(syms)) |->
                    IF k % 2 = 1
                    THEN <<clc[syms[(k + 1) \div 2].sym].code,
                           clc[syms[(k + 1) \div 2].sym].length>>
                    ELSE <<syms[k \div 2].extra, syms[k \div 2].nbits>>]
    IN <<<<Cardinality(DOMAIN lit_lengths) - 257, 5>>,
         <<Cardinality(DOMAIN dist_lengths) - 1, 5>>,
         <<Len(CODE_LENGTH_ORDER) - 4, 4>>>>
       \o [i \in 1..Len(CODE_LENGTH_ORDER) |->
              <<CODE_LENGTH_CODE_LENGTHS[CODE_LENGTH_ORDER[i]], 3>>]
       \o flat

\* The description both drivers' tables need; the same for every block.
FixedLengthsWrites ==
    huffman_lengths_writes(FIXED_CODE_LENGTHS, FIXED_CODE_LENGTHS_DISTANCE)

RECURSIVE write_range(_, _, _, _)
\* write_bits for ws[lo], ..., ws[hi], in this order.  The first half is
\* evaluated (its bit position is looked at) before the second half starts.
write_range(w, ws, lo, hi) ==
    IF lo > hi THEN w
    ELSE IF lo = hi THEN write_bits(w, ws[lo][1], ws[lo][2])
    ELSE LET first == write_range(w, ws, lo, (lo + hi) \div 2)
         IN IF first.bit_position >= 0
            THEN write_range(first, ws, (lo + hi) \div 2 + 1, hi)
            ELSE first

\* write_huffman_lengths(&FIXED_CODE_LENGTHS, &FIXED_CODE_LENGTHS_DISTANCE, writer)
write_huffman_lengths(w) ==
    write_range(w, FixedLengthsWrites, 1, Len(FixedLengthsWrites))

---------------------------------------------------------------------------
(* stored_block::compress_data_stored.  Its code is not part of the        *)
(* sources at hand; it is modelled from the design document: blocks of at  *)
(* most 65,535 bytes, each a header byte, LEN, NLEN and the raw bytes.     *)

MAX_STORED_BLOCK_LENGTH == 65535

RECURSIVE stored_blocks(_, _)
stored_blocks(bytes, from) ==
    LET len == Min(Len(bytes) - from, MAX_STORED_BLOCK_LENGTH)
        final == from + len >= Len(bytes)
        block == <<IF final THEN 1 ELSE 0,
                   len % 256, len \div 256,
                   255 - (len % 256), 255 - (len \div 256)>>
                 \o SubSeq(bytes, from + 1, from + len)
    IN IF final THEN block ELSE block \o stored_blocks(bytes, from + len)

compress_data_stored(bytes) == stored_blocks(bytes, 0)

---------------------------------------------------------------------------
(* RFC 1951, written down independently of the encoder above: the tables   *)
(* of section 3.2.5, the fixed codes of section 3.2.6 and the bit order of *)
(* section 3.1.1.  The claims compare the encoder's output with these.     *)

\* 3.2.5: the base length and extra-bit count of the length codes 257..285,
\* the base distance and extra-bit count of the distance codes 0..29.
RfcLengthBase ==
    <<3, 4, 5, 6, 7, 8, 9, 10, 11, 13, 15, 17, 19, 23, 27, 31, 35, 43, 51, 59,
      67, 83, 99, 115, 131, 163, 195, 227, 258>>
RfcLengthExtra ==
    <<0, 0, 0, 0, 0, 0, 0, 0, 1, 1, 1, 1, 2, 2, 2, 2, 3, 3, 3, 3,
      4, 4, 4, 4, 5, 5, 5, 5, 0>>
RfcDistBase ==
    <<1, 2, 3, 4, 5, 7, 9, 13, 17, 25, 33, 49, 65, 97, 129, 193, 257, 385,
      513, 769, 1025, 1537, 2049, 3073, 4097, 6145, 8193, 12289, 16385, 24577>>
RfcDistExtra ==
    <<0, 0, 0, 0, 1, 1, 2, 2, 3, 3, 4, 4, 5, 5, 6, 6, 7, 7, 8, 8,
      9, 9, 10, 10, 11, 11, 12, 12, 13, 13>>

\* 3.1.1: Huffman codes are packed starting with their most significant bit,
\* every other field starting with its least significant bit.
MsbFirst(value, width) == [j \in 1..width |-> BitAt(value, width - j)]

\* 3.2.6: the fixed code of a literal/length symbol.
RfcFixedCode(sym) ==
    IF sym <= 143 THEN MsbFirst(48 + sym, 8)
    ELSE IF sym <= 255 THEN MsbFirst(400 + (sym - 144), 9)
    ELSE IF sym <= 279 THEN MsbFirst(sym - 256, 7)
    ELSE MsbFirst(192 + (sym - 280), 8)

\* The last code whose range holds v: 258 has its own length code, 285.
RfcCodeFor(base, extra, v) ==
    CHOOSE i \in 1..Len(base) :
        /\ base[i] <= v /\ v < base[i] + Pow2(extra[i])
        /\ \A j \in (i + 1)..Len(base) : ~(base[j] <= v /\ v < base[j] + Pow2(extra[j]))

---------------------------------------------------------------------------
(* A decoder for RFC 1951 streams, after section 3.2.3's algorithm: stored, *)
(* fixed and dynamic blocks, codes rebuilt from code lengths as section     *)
(* 3.2.2 defines them.  It takes the counts HLIT and HDIST as the 5-bit     *)
(* fields give them and accepts codes that leave code space unused; every   *)
(* other malformation (a truncated stream, a code that does not exist, a    *)
(* distance before the start, LEN and NLEN disagreeing, a reserved block    *)
(* type, bytes after the final block) is an error.                          *)

\* 3.2.7: the order of the code lengths of the code-length alphabet.
RfcOrder == <<16, 17, 18, 0, 8, 7, 9, 6, 10, 5, 11, 4, 12, 3, 13, 2, 14, 1, 15>>

\* 3.2.6: the code lengths of a fixed block; lens[s + 1] is for symbol s.
RfcFixedLitLens ==
    [s \in 1..288 |-> IF s <= 144 THEN 8 ELSE IF s <= 256 THEN 9
                      ELSE IF s <= 280 THEN 7 ELSE 8]
RfcFixedDistLens == [s \in 1..30 |-> 5]

RECURSIVE inflate_bits(_, _, _)
\* The field of cnt bits at bit pos, least significant bit first.
inflate_bits(buf, pos, cnt) ==
    IF cnt = 0 THEN 0
    ELSE BufferBit(buf, pos) + 2 * inflate_bits(buf, pos + 1, cnt - 1)

RECURSIVE inflate_decode(_, _, _, _, _, _)
\* One symbol of the canonical code with lengths lens, read bit by bit from
\* pos: `code` holds the bits read so far, `first` the first code of length
\* len; the codes of one length are consecutive, in symbol order.
inflate_decode(buf, pos, lens, len, code, first) ==
    IF len > 15 \/ pos >= 8 * Len(buf) THEN [sym |-> -1, pos |-> pos]
    ELSE LET c == code + BufferBit(buf, pos)
             same == {s \in 1..Len(lens) : lens[s] = len}
             count == Cardinality(same)
         IN IF c - count < first
            THEN [sym |-> (CHOOSE s \in same :
                              Cardinality({t \in same : t < s}) = c - first) - 1,
                  pos |-> pos + 1]
            ELSE inflate_decode(buf, pos + 1, lens, len + 1,
                                2 * c, 2 * (first + count))

inflate_error(st) == [st EXCEPT !.state = "error"]

\* After a block that ends at bit pos: the next block, or the end of the
\* stream, which is to lie in the last byte.
inflate_end_of_block(buf, st, pos, out) ==
    IF ~st.last THEN [st EXCEPT !.state = "block", !.pos = pos, !.out = out]
    ELSE IF pos <= 8 * Len(buf) /\ pos > 8 * (Len(buf) - 1)
    THEN [st EXCEPT !.state = "done", !.pos = pos, !.out = out]
    ELSE inflate_error(st)

\* A stored block: to the byte boundary, LEN, NLEN, LEN bytes.
inflate_stored(buf, st, pos) ==
    LET p == (pos + 7) \div 8 IN
    IF p + 4 > Len(buf) THEN inflate_error(st)
    ELSE LET len == buf[p + 1] + 256 * buf[p + 2]
             nlen == buf[p + 3] + 256 * buf[p + 4]
         IN IF len + nlen # 65535 \/ p + 4 + len > Len(buf) THEN inflate_error(st)
            ELSE inflate_end_of_block(buf, st, 8 * (p + 4 + len),
                                      st.out \o SubSeq(buf, p + 5, p + 4 + len))

\* The head of a dynamic block: the counts and the code-length code.
inflate_dynamic(buf, st, pos) ==
    IF pos + 14 > 8 * Len(buf) THEN inflate_error(st)
    ELSE LET nlen == inflate_bits(buf, pos, 5) + 257
             ndist == inflate_bits(buf, pos + 5, 5) + 1
             ncode == inflate_bits(buf, pos + 10, 4) + 4
         IN IF pos + 14 + 3 * ncode > 8 * Len(buf) THEN inflate_error(st)
            ELSE [st EXCEPT
                    !.state = "lengths",
                    !.pos = pos + 14 + 3 * ncode,
                    !.nlen = nlen,
                    !.total = nlen + ndist,
                    !.lens = <<>>,
                    !.cl = [s \in 1..19 |->
                              IF \E i \in 1..ncode : RfcOrder[i] = s - 1
                              THEN inflate_bits(
                                       buf,
                                       pos + 14 + 3 * ((CHOOSE i \in 1..ncode :
                                                           RfcOrder[i] = s - 1) - 1),
                                       3)
                              ELSE 0]]

\* 3.2.3: the header of a block.
inflate_block(buf, st) ==
    IF st.pos + 3 > 8 * Len(buf) THEN inflate_error(st)
    ELSE LET type == inflate_bits(buf, st.pos + 1, 2)
             st1 == [st EXCEPT !.last = (BufferBit(buf, st.pos) = 1)]
         IN IF type = 0 THEN inflate_stored(buf, st1, st.pos + 3)
            ELSE IF type = 1
            THEN [st1 EXCEPT !.state = "codes", !.pos = st.pos + 3,
                             !.lit = RfcFixedLitLens, !.dist = RfcFixedDistLens]
            ELSE IF type = 2 THEN inflate_dynamic(buf, st1, st.pos + 3)
            ELSE inflate_error(st)

\* 3.2.7: one symbol of the code-length description; after the last one the
\* two codes are set up (the end-of-block symbol is to have a code).
inflate_length(buf, st) ==
    IF Len(st.lens) > st.total THEN inflate_error(st)
    ELSE IF Len(st.lens) = st.total
    THEN IF st.lens[257] = 0 THEN inflate_error(st)
         ELSE [st EXCEPT !.state = "codes",
                         !.lit = SubSeq(st.lens, 1, st.nlen),
                         !.dist = SubSeq(st.lens, st.nlen + 1, st.total)]
    ELSE LET d == inflate_decode(buf, st.pos, st.cl, 1, 0, 0) IN
         IF d.sym < 0 THEN inflate_error(st)
         ELSE IF d.sym < 16
         THEN [st EXCEPT !.pos = d.pos, !.lens = Append(st.lens, d.sym)]
         ELSE LET eb == IF d.sym = 16 THEN 2 ELSE IF d.sym = 17 THEN 3 ELSE 7
                  base == IF d.sym = 18 THEN 11 ELSE 3
              IN IF d.pos + eb > 8 * Len(buf) \/ (d.sym = 16 /\ st.lens = <<>>)
                 THEN inflate_error(st)
                 ELSE LET rep == base + inflate_bits(buf, d.pos, eb)
                          v == IF d.sym = 16 THEN st.lens[Len(st.lens)] ELSE 0
                      IN [st EXCEPT !.pos = d.pos + eb,
                                    !.lens = st.lens \o [i \in 1..rep |-> v]]

\* 3.2.3: one symbol of the data of a block: a literal, the end of the block,
\* or a length and a distance, the copy taking the bytes it has just written
\* when the distance is shorter than the length.
inflate_symbol(buf, st) ==
    LET d == inflate_decode(buf, st.pos, st.lit, 1, 0, 0) IN
    IF d.sym < 0 \/ d.sym > 285 THEN inflate_error(st)
    ELSE IF d.sym < 256
    THEN [st EXCEPT !.pos = d.pos, !.out = Append(st.out, d.sym)]
    ELSE IF d.sym = 256 THEN inflate_end_of_block(buf, st, d.pos, st.out)
    ELSE LET li == d.sym - 256
             p1 == d.pos + RfcLengthExtra[li]
         IN IF p1 > 8 * Len(buf) THEN inflate_error(st)
            ELSE LET length == RfcLengthBase[li]
                               + inflate_bits(buf, d.pos, RfcLengthExtra[li])
                     dd == inflate_decode(buf, p1, st.dist, 1, 0, 0)
                 IN IF dd.sym < 0 \/ dd.sym > 29 THEN inflate_error(st)
                    ELSE IF dd.pos + RfcDistExtra[dd.sym + 1] > 8 * Len(buf)
                    THEN inflate_error(st)
                    ELSE LET dist == RfcDistBase[dd.sym + 1]
                                     + inflate_bits(buf, dd.pos, RfcDistExtra[dd.sym + 1])
                         IN IF dist > Len(st.out) THEN inflate_error(st)
                            ELSE [st EXCEPT
                                    !.pos = dd.pos + RfcDistExtra[dd.sym + 1],
                                    !.out = st.out \o
                                        [i \in 1..length |->
                                            st.out[Len(st.out) - dist + 1
                                                   + ((i - 1) % dist)]]]

\* One step of the decoder.
inflate_step(buf, st) ==
    IF st.state = "block" THEN inflate_block(buf, st)
    ELSE IF st.state = "lengths" THEN inflate_length(buf, st)
    ELSE inflate_symbol(buf, st)

---------------------------------------------------------------------------
(* EncoderState and the block drivers (src/src/lib.rs).  The Huffman table *)
(* of the state is FixedTable in both drivers.                             *)

FIXED_FIRST_BYTE == 2
FIXED_FIRST_BYTE_FINAL == 3
DYNAMIC_FIRST_BYTE == 4
DYNAMIC_FIRST_BYTE_FINAL == 5

\* EncoderState::write_literal
write_literal(w, value) ==
    LET code == get_literal(FixedTable, value)
    IN write_bits(w, code.code, code.length)

\* Whether write_ldpair panics: no code for the pair, or a block start.
write_ldpair_panics(value) ==
    \/ value.type = "LengthDistance"
       /\ ~has_length_distance_code(value.length, value.distance)
    \/ value.type = "BlockStart"

\* write_ldpair that writes the distance code before the length's extra bits.
write_ldpair_distance_first(w, value) ==
    IF value.type = "Literal" THEN write_literal(w, value.value)
    ELSE LET ld == get_length_distance_code(FixedTable, value.length, value.distance)
             w1 == write_bits(w, ld.length_code.code, ld.length_code.length)
             w2 == write_bits(w1, ld.distance_code.code, ld.distance_code.length)
             w3 == write_bits(w2, ld.length_extra_bits.code, ld.length_extra_bits.length)
         IN write_bits(w3, ld.distance_extra_bits.code, ld.distance_extra_bits.length)

\* EncoderState::write_ldpair, for a value it does not panic on.
write_ldpair(w, value) ==
    IF value.type = "Literal" THEN write_literal(w, value.value)
    ELSE LET ld == get_length_distance_code(FixedTable, value.length, value.distance)
             w1 == write_bits(w, ld.length_code.code, ld.length_code.length)
             w2 == write_bits(w1, ld.length_extra_bits.code, ld.length_extra_bits.length)
             w3 == write_bits(w2, ld.distance_code.code, ld.distance_code.length)
         IN write_bits(w3, ld.distance_extra_bits.code, ld.distance_extra_bits.length)

\* EncoderState::write_start_of_block
write_start_of_block(w, is_fixed, final_block) ==
    IF final_block
    THEN IF is_fixed THEN write_bits(w, FIXED_FIRST_BYTE_FINAL, 3)
         ELSE write_bits(w, DYNAMIC_FIRST_BYTE_FINAL, 3)
    ELSE IF is_fixed THEN write_bits(w, FIXED_FIRST_BYTE, 3)
         ELSE write_bits(w, DYNAMIC_FIRST_BYTE, 3)

\* EncoderState::write_end_of_block
write_end_of_block(w) ==
    LET code == get_end_of_block(FixedTable)
    IN write_bits(w, code.code, code.length)

\* write_ldpair finding out that the distance has no code only after the
\* length code and the length's extra bits are written.
write_ldpair_failed_late(w, value) ==
    IF /\ value.type = "LengthDistance"
       /\ value.length >= MIN_MATCH /\ value.length <= MAX_MATCH
    THEN LET li == base_index(LENGTH_BASE, value.length)
             code == FixedTable.codes[256 + li]
         IN write_bits(write_bits(w, code.code, code.length),
                       value.length - LENGTH_BASE[li], LENGTH_EXTRA[li])
    ELSE w

\* The writer a panicking write_ldpair leaves behind: `expect` and `panic!`
\* come before the first write_bits.
write_ldpair_failed(w, value) == w

\* compress_data_dynamic closing no block at a block start.
closes_previous_block_never(index) == FALSE

\* compress_data_dynamic: `if n > 0` at a block start.
closes_previous_block(index) == index > 0

\* The entries of `ops`.
OpHeader(is_fixed, final) == [op |-> "header", fixed |-> is_fixed, final |-> final]
OpLengths == [op |-> "lengths"]
OpSymbol(index) == [op |-> "symbol", index |-> index]
OpEob == [op |-> "eob"]
OpFlush == [op |-> "flush"]

\* compress_data: the dispatch on the block type.  The stored path is one
\* call; the other two go on to their driver.
compress_data ==
    /\ pc = "compress_data"
    /\ IF btype = "NoCompression"
       THEN /\ output' = compress_data_stored(input)
            /\ pc' = "done"
       ELSE /\ output' = output
            /\ pc' = IF btype = "FixedHuffman" THEN "fixed" ELSE "dynamic"
    /\ UNCHANGED <<writer, input, btype, compressed, n, fixed, ops>>
    /\ UNCHANGED <<written, calls, inflater>>
    /\ UNCHANGED lm_vars

\* compress_data_fixed up to its loop: EncoderState::default(), the symbols
\* of lz77_compress, and the header of the one block.
fixed_start ==
    /\ pc = "fixed"
    /\ fixed' = TRUE
    /\ writer' = write_start_of_block(BitWriter_new, TRUE, TRUE)
    /\ ops' = <<OpHeader(TRUE, TRUE)>>
    /\ n' = 0
    /\ pc' = "fixed_loop"
    /\ UNCHANGED <<input, btype, compressed, output>>
    /\ UNCHANGED <<written, calls, inflater>>
    /\ UNCHANGED lm_vars

\* One iteration of `for ld in compressed` of compress_data_fixed.
fixed_symbol ==
    /\ pc = "fixed_loop"
    /\ n < Len(compressed)
    /\ LET ld == compressed[n + 1] IN
       IF ld.type = "BlockStart"
       THEN /\ pc' = pc
            /\ n' = n + 1
            /\ UNCHANGED <<writer, ops>>
       ELSE IF write_ldpair_panics(ld)
       THEN /\ pc' = "panic"
            /\ writer' = write_ldpair_failed(writer, ld)
            /\ UNCHANGED <<ops, n>>
       ELSE /\ writer' = write_ldpair(writer, ld)
            /\ ops' = Append(ops, OpSymbol(n))
            /\ n' = n + 1
            /\ pc' = pc
    /\ UNCHANGED <<input, btype, compressed, fixed, output>>
    /\ UNCHANGED <<written, calls, inflater>>
    /\ UNCHANGED lm_vars

\* The end of both drivers: the end-of-block code, flush, and the buffer
\* moved out of the writer and returned.
finish_pass ==
    LET w1 == write_end_of_block(writer) IN
    IF finish_panics(w1)
    THEN /\ pc' = "panic"
         /\ writer' = w1
         /\ ops' = Append(ops, OpEob)
         /\ output' = output
    ELSE /\ pc' = "done"
         /\ writer' = [finish(w1) EXCEPT !.buffer = <<>>]
         /\ ops' = ops \o <<OpEob, OpFlush>>
         /\ output' = finish(w1).buffer

fixed_finish ==
    /\ pc = "fixed_loop"
    /\ n = Len(compressed)
    /\ finish_pass
    /\ UNCHANGED <<input, btype, compressed, n, fixed>>
    /\ UNCHANGED <<written, calls, inflater>>
    /\ UNCHANGED lm_vars

\* compress_data_dynamic up to its loop: EncoderState::new, the symbols of
\* lz77_compress, and the check that they start with a block start.
dynamic_start ==
    /\ pc = "dynamic"
    /\ fixed' = FALSE
    /\ writer' = BitWriter_new
    /\ n' = 0
    /\ pc' = IF Len(compressed) > 0 /\ compressed[1].type = "BlockStart"
             THEN "dynamic_loop" ELSE "panic"
    /\ UNCHANGED <<input, btype, compressed, output, ops>>
    /\ UNCHANGED <<written, calls, inflater>>
    /\ UNCHANGED lm_vars

\* One iteration of the loop of compress_data_dynamic.
dynamic_symbol ==
    /\ pc = "dynamic_loop"
    /\ n < Len(compressed)
    /\ LET ld == compressed[n + 1] IN
       IF ld.type = "BlockStart"
       THEN LET w1 == IF closes_previous_block(n)
                      THEN write_end_of_block(writer) ELSE writer
                w2 == write_start_of_block(w1, fixed, ld.is_final)
            IN /\ writer' = write_huffman_lengths(w2)
               /\ ops' = ops \o (IF closes_previous_block(n) THEN <<OpEob>> ELSE <<>>)
                             \o <<OpHeader(fixed, ld.is_final), OpLengths>>
               /\ n' = n + 1
               /\ pc' = pc
       ELSE IF write_ldpair_panics(ld)
       THEN /\ pc' = "panic"
            /\ writer' = write_ldpair_failed(writer, ld)
            /\ UNCHANGED <<ops, n>>
       ELSE /\ writer' = write_ldpair(writer, ld)
            /\ ops' = Append(ops, OpSymbol(n))
            /\ n' = n + 1
            /\ pc' = pc
    /\ UNCHANGED <<input, btype, compressed, fixed, output>>
    /\ UNCHANGED <<written, calls, inflater>>
    /\ UNCHANGED lm_vars

dynamic_finish ==
    /\ pc = "dynamic_loop"
    /\ n = Len(compressed)
    /\ finish_pass
    /\ UNCHANGED <<input, btype, compressed, n, fixed>>
    /\ UNCHANGED <<written, calls, inflater>>
    /\ UNCHANGED lm_vars

---------------------------------------------------------------------------
(* SpecDriver: the two drivers over any sequence of LDPair values, as the  *)
(* value of `compressed`.                                                  *)

\* The longest symbol sequence of SpecDriver.
MaxSymbols == 3

\* Literals with an 8-bit and a 9-bit code, matches with and without extra
\* bits, matches that have no code, and the two block starts.
DriverSymbols ==
    {Literal(65), Literal(200),
     LengthDistance(12, 6), LengthDistance(258, 32768),
     LengthDistance(2, 1), LengthDistance(259, 1),
     LengthDistance(3, 0), LengthDistance(3, 32769),
     BlockStart(TRUE), BlockStart(FALSE)}

InitDriver ==
    /\ pc \in {"fixed", "dynamic"}
    /\ btype = IF pc = "fixed" THEN "FixedHuffman" ELSE "DynamicHuffman"
    /\ input = <<>>
    /\ compressed \in SeqsUpTo(DriverSymbols, MaxSymbols)
    /\ n = 0
    /\ fixed = FALSE
    /\ output = NoOutput
    /\ ops = <<>>
    /\ inflater = InflateStart
    /\ BWIdle
    /\ LMIdle

NextDriver ==
    \/ fixed_start \/ fixed_symbol \/ fixed_finish
    \/ dynamic_start \/ dynamic_symbol \/ dynamic_finish

SpecDriver == InitDriver /\ [][NextDriver]_vars

---------------------------------------------------------------------------
(* SpecCompress: compress_data(input, btype), the symbols being those of   *)
(* lz77_compress(input).                                                   *)

\* The longest input enumerated exhaustively.
MaxInputLen == 5

\* A byte with an 8-bit and a byte with a 9-bit fixed code.
InputBytes == {65, 200}

\* lib.rs test_fixed_example, test_fixed_data, test_dynamic_string_mem and
\* test_no_compression_one_chunk.
DeflateLate == <<68, 101, 102, 108, 97, 116, 101, 32, 108, 97, 116, 101>>
FixedData == [i \in 1..400 |-> 190]
GnuString ==
    [i \in 1..20 |-> 32]
    \o <<71, 78, 85, 32, 71, 69, 78, 69, 82, 65, 76, 32, 80, 85, 66, 76, 73,
         67, 32, 76, 73, 67, 69, 78, 83, 69>>
OneChunk == <<1, 2, 3, 4, 5, 6, 7, 8>>
\* Matches with extra bits in the length (12) and in the distance (6).
ExtraBitsData == <<1, 2, 3, 4, 5, 6, 1, 2, 3, 9, 9, 9, 9, 9, 9, 9, 9, 9, 9, 9, 9, 9>>
\* More bytes than one stored block holds.
TwoStoredBlocks == [i \in 1..(MAX_STORED_BLOCK_LENGTH + 5) |-> 32]

CompressInputs ==
    SeqsUpTo(InputBytes, MaxInputLen)
    \cup {DeflateLate, FixedData, GnuString, OneChunk, ExtraBitsData}

InitCompress ==
    /\ pc = "compress_data"
    /\ \/ /\ input \in CompressInputs
          /\ btype \in {"NoCompression", "FixedHuffman", "DynamicHuffman"}
       \/ /\ input = TwoStoredBlocks
          /\ btype = "NoCompression"
    /\ compressed = IF btype = "NoCompression" THEN <<>> ELSE lz77_compress(input)
    /\ n = 0
    /\ fixed = FALSE
    /\ output = NoOutput
    /\ ops = <<>>
    /\ inflater = InflateStart
    /\ BWIdle
    /\ LMIdle

\* The caller hands the returned buffer to the decoder, which reads it one
\* block header, code length or symbol at a time.
inflate_update ==
    /\ pc = "done"
    /\ inflater.state \notin {"done", "error"}
    /\ inflater' = inflate_step(output, inflater)
    /\ UNCHANGED <<pc, writer, input, btype, compressed, n, fixed, output, ops>>
    /\ UNCHANGED <<written, calls>>
    /\ UNCHANGED lm_vars

NextCompress ==
    \/ compress_data
    \/ inflate_update
    \/ fixed_start \/ fixed_symbol \/ fixed_finish
    \/ dynamic_start \/ dynamic_symbol \/ dynamic_finish

SpecCompress == InitCompress /\ [][NextCompress]_vars

---------------------------------------------------------------------------
(* The claims about the drivers, stated against RFC 1951.                 *)

\* The bits of one symbol in a fixed block.
RfcSymbolBits(sym) ==
    IF sym.type = "Literal" THEN RfcFixedCode(sym.value)
    ELSE LET li == RfcCodeFor(RfcLengthBase, RfcLengthExtra, sym.length)
             di == RfcCodeFor(RfcDistBase, RfcDistExtra, sym.distance)
         IN RfcFixedCode(256 + li)
            \o LowBits(sym.length - RfcLengthBase[li], RfcLengthExtra[li])
            \o MsbFirst(di - 1, 5)
            \o LowBits(sym.distance - RfcDistBase[di], RfcDistExtra[di])

IsBlockStart(v) == v.type = "BlockStart"
IsSymbol(v) == v.type # "BlockStart"

RECURSIVE RfcBitsOf(_, _)
\* The bits of the symbols syms[1..k] in a fixed block, block starts left out.
RfcBitsOf(syms, k) ==
    IF k = 0 THEN <<>>
    ELSE RfcBitsOf(syms, k - 1)
         \o (IF IsBlockStart(syms[k]) THEN <<>> ELSE RfcSymbolBits(syms[k]))

\* The bits a writer holds: its buffer, then the pending bits.
WriterBits(w) ==
    [k \in 1..(8 * Len(w.buffer)) |-> BufferBit(w.buffer, k - 1)]
    \o LowBits(w.accumulator, w.bit_position)

\* bits, zero-padded to whole bytes.
PadToByte(bits) == bits \o [k \in 1..((8 - (Len(bits) % 8)) % 8) |-> 0]

\* C4: compress_data with FixedHuffman writes the RFC 1951 fixed encoding of
\* the symbols of lz77_compress: the header bits 1 (BFINAL), then 1, 0
\* (BTYPE = 01, low bit first); after k symbols the writer holds the header
\* and the bits of these k symbols in order (a literal: its fixed code; a
\* match: length code, length extra bits, distance code, distance extra bits);
\* the output is all symbols' bits, the end-of-block code and zero padding to
\* a byte boundary; "Deflate late" gives 73 49 4D CB 49 2C 49 55 00 11 00.
C4_FixedIsRfcEncoding ==
    btype = "FixedHuffman" =>
        /\ pc = "fixed_loop" =>
              WriterBits(writer) = <<1, 1, 0>> \o RfcBitsOf(compressed, n)
        /\ pc = "done" =>
              LET bits == <<1, 1, 0>> \o RfcBitsOf(compressed, Len(compressed))
                          \o RfcFixedCode(256)
              IN /\ 8 * Len(output) = Len(PadToByte(bits))
                 /\ [k \in 1..(8 * Len(output)) |-> BufferBit(output, k - 1)]
                        = PadToByte(bits)
        /\ (pc = "done" /\ input = DeflateLate) =>
              output = <<115, 73, 77, 203, 73, 44, 73, 85, 0, 17, 0>>

\* C4's case: the fixed pass over "Deflate late", whose symbols end with a
\* match, has returned its 11 bytes.
C4_Witness ==
    /\ pc = "done" /\ btype = "FixedHuffman" /\ input = DeflateLate
    /\ compressed[Len(compressed)].type = "LengthDistance"
    /\ Len(output) = 11

\* A match without a length/distance code.
CodelessMatch(v) ==
    /\ v.type = "LengthDistance"
    /\ \/ v.length < 3 \/ v.length > 258
       \/ v.distance < 1 \/ v.distance > 32768

\* C8: a pass that meets a match without a code (or hands a block start to
\* write_ldpair) fails at that symbol: the step that fails writes no bit and
\* logs no operation, nothing changes after it, every pass that reaches such
\* a match fails there, and a pass whose symbols hold such a match returns no
\* buffer.
C8_FailingSymbolAbortsPass ==
    [][/\ (pc \in {"fixed_loop", "dynamic_loop"} /\ pc' = "panic") =>
              /\ n < Len(compressed)
              /\ CodelessMatch(compressed[n + 1]) \/ IsBlockStart(compressed[n + 1])
              /\ writer' = writer /\ ops' = ops /\ n' = n
              /\ output' = NoOutput
       /\ (/\ pc \in {"fixed_loop", "dynamic_loop"}
           /\ n < Len(compressed)
           /\ CodelessMatch(compressed[n + 1])) => pc' = "panic"
       /\ pc = "panic" => UNCHANGED vars
       /\ output' # NoOutput =>
              \A i \in 1..Len(compressed) : ~CodelessMatch(compressed[i])
      ]_vars

\* C8's case: a pass that wrote at least one byte failed at a codeless match
\* and returned nothing.
C8_Witness ==
    /\ pc = "panic" /\ n >= 1 /\ n < Len(compressed)
    /\ CodelessMatch(compressed[n + 1])
    /\ Len(writer.buffer) > 0
    /\ output = NoOutput

RECURSIVE DriverState(_, _)
\* The state of the driver's state machine after the operations log[1..k].
DriverState(log, k) ==
    IF k = 0 THEN "IDLE"
    ELSE LET s == DriverState(log, k - 1)
             o == log[k]
         IN CASE o.op = "header" ->
                    IF s \in {"IDLE", "EOB"}
                    THEN IF o.fixed THEN "SYMBOLS" ELSE "HEADER"
                    ELSE "BAD"
              [] o.op = "lengths" -> IF s = "HEADER" THEN "SYMBOLS" ELSE "BAD"
              [] o.op = "symbol" -> IF s = "SYMBOLS" THEN "SYMBOLS" ELSE "BAD"
              [] o.op = "eob" -> IF s = "SYMBOLS" THEN "EOB" ELSE "BAD"
              [] o.op = "flush" -> IF s = "EOB" THEN "FINAL" ELSE "BAD"

IsHeader(o) == o.op = "header"
IsEob(o) == o.op = "eob"
IsSymbolOp(o) == o.op = "symbol"

\* The header operations written so far, and the block starts consumed.
Headers == SelectSeq(ops, IsHeader)
Markers == SelectSeq(SubSeq(compressed, 1, n), IsBlockStart)

\* The symbols written are those before index n, block starts left out.
SymbolsInOrder ==
    LET written_ops == SelectSeq(ops, IsSymbolOp)
        idx == SelectSeq([i \in 1..n |-> i - 1],
                         LAMBDA i : IsSymbol(compressed[i + 1]))
    IN written_ops = [j \in 1..Len(idx) |-> OpSymbol(idx[j])]

\* The pass is in or past its loop.
InPass ==
    \/ pc \in {"fixed_loop", "dynamic_loop", "done"}
    \/ pc = "panic" /\ Len(ops) > 0

---------------------------------------------------------------------------
(* The round trip.                                                         *)

---------------------------------------------------------------------------
(* The bounds of the sentinel comparison and of the accumulator.           *)

\* C11: longest_match never reads outside data: whenever the loop is about to
\* take a candidate (an answer of get_prev below current_head and not below
\* limit), so that the two-byte sentinel comparison runs, best_length >= 1
\* and both slices end within data; no call fails on an out-of-range slice.
C11_SentinelInRange ==
    /\ pc # "lm_panic"
    /\ (pc = "lm_loop" /\ lm.status = "loop" /\ lm.i < max_hash_checks) =>
          \A got \in GetPrevAnswers(hash_table, data, position, lm.current_head) :
              (got < lm.current_head /\ got >= lm.limit) =>
                  /\ 1 <= lm.best_length
                  /\ position + lm.best_length + 1 <= Len(data)
                  /\ got + lm.best_length + 1 <= Len(data)

\* C12: after any sequence of write_bits calls with widths in 0..16 the bit
\* position is in 0..7, so finish does not take its failure branch; and
\* whatever call comes next, the bit position plus its width is at most 23
\* and the accumulator with the shifted value or-ed in stays below 2^23,
\* inside the 32 bits.
C12_BitPositionBounded ==
    /\ writer.bit_position >= 0 /\ writer.bit_position <= 7
    /\ ~finish_panics(writer)
    /\ pc # "bw_panic"
    /\ \A size \in 0..16 : writer.bit_position + size <= 23
    /\ \A bits \in BitsValues :
          BitOr(writer.accumulator, bits * Pow2(writer.bit_position)) < Pow2(23)

\* C12's case: two calls have written 23 bits, and finish has found the 7
\* pending bits after two bytes.
C12_Witness ==
    /\ pc = "bw_finished" /\ calls = 2 /\ Len(written) = 23
    /\ writer.bit_position = 7
    /\ Len(writer.buffer) = 3

=============================================================================
